---- MODULE Spec2Model ----
(***************************************************************************)
(* A model of macos_dateadded.py: getDateAdded / setDateAdded on top of    *)
(* getattrlist(2) / setattrlist(2), and the command-line batch loop.       *)
(*                                                                         *)
(* Representation.                                                         *)
(*  - A Python str is a sequence of one-character strings; a bytes object  *)
(*    is a sequence of integers 0..255.  str.encode() / bytes.decode() are *)
(*    UTF-8, computed byte by byte.                                        *)
(*  - Time is counted in whole seconds (the claims are about timestamps    *)
(*    with zero sub-second part).  The calendar is scaled down: a naive    *)
(*    datetime is [wall, fold] with wall the number of seconds since the   *)
(*    local epoch, and its ISO-8601 text is the decimal numeral of wall.   *)
(*    The local zone is [start, end, shift, max_fold]: the UTC offset is   *)
(*    shift for start <= u < end and 0 elsewhere, so a zone with shift > 0 *)
(*    has one skipped wall-clock interval and one repeated one.            *)
(*  - A 32-bit attribute mask is the set of its bit positions, so that     *)
(*    a | b is a \cup b (0x80000000 does not fit TLC's integers).          *)
(***************************************************************************)
EXTENDS Integers, Sequences, FiniteSets, TLC

\* Largest epoch second / wall-clock second offered as an input.
MaxTime == 3
\* Largest number of positional command-line arguments.
MaxArgs == 2

----------------------------------------------------------------------------
(* Constants of sys/attr.h, lines 23-26. *)
ATTR_BIT_MAP_COUNT == 5
ATTR_CMN_RETURNED_ATTRS == {31}
ATTR_CMN_ADDEDTIME == {28}
\* (mutant) options = 0: symbolic links are followed.
FSOPT_FOLLOW == {}
FSOPT_NOFOLLOW == {0}

BitOr(a, b) == a \cup b

----------------------------------------------------------------------------
(* Text: str and bytes. *)

Digit == <<"0", "1", "2", "3", "4", "5", "6", "7", "8", "9">>
Digits == {Digit[i] : i \in 1..10}
DigitValue(c) == (CHOOSE i \in 1..10 : Digit[i] = c) - 1

\* Code points of the characters the model uses ("e'" is U+00E9, "\\udcff"
\* is the lone surrogate U+DCFF that os.fsdecode gives for the byte 0xFF).
Ord == [c \in Digits |-> 48 + DigitValue(c)] @@
       ("a" :> 97 @@ "l" :> 108 @@ "u" :> 117 @@ "n" :> 110 @@ "x" :> 120 @@
        "_" :> 95 @@ "*" :> 42 @@ "," :> 44 @@ "#" :> 35 @@ " " :> 32 @@
        "\n" :> 10 @@ "e'" :> 233 @@ "\\udcff" :> 56575)
Chars == DOMAIN Ord
Chr(cp) == CHOOSE c \in Chars : Ord[c] = cp

\* str.encode() of one character: UTF-8, strict (surrogates are refused).
EncodeChar(c) ==
    LET cp == Ord[c] IN
    IF cp < 128 THEN [ok |-> TRUE, bytes |-> <<cp>>]
    ELSE IF cp < 2048
         THEN [ok |-> TRUE, bytes |-> <<192 + (cp \div 64), 128 + (cp % 64)>>]
    ELSE IF cp >= 55296 /\ cp <= 57343 THEN [ok |-> FALSE, bytes |-> <<>>]
    ELSE [ok |-> TRUE,
          bytes |-> <<224 + (cp \div 4096), 128 + ((cp \div 64) % 64),
                      128 + (cp % 64)>>]

RECURSIVE encode(_)
encode(s) ==
    IF s = <<>> THEN [ok |-> TRUE, bytes |-> <<>>]
    ELSE LET h == EncodeChar(Head(s))
             t == encode(Tail(s))
         IN IF h.ok /\ t.ok THEN [ok |-> TRUE, bytes |-> h.bytes \o t.bytes]
            ELSE [ok |-> FALSE, bytes |-> <<>>]

IsCont(b) == b >= 128 /\ b <= 191

\* bytes.decode(): UTF-8, strict.
RECURSIVE decode(_)
decode(b) ==
    IF b = <<>> THEN [ok |-> TRUE, str |-> <<>>]
    ELSE LET b0 == b[1]
             one == b0 < 128
             two == b0 >= 194 /\ b0 <= 223 /\ Len(b) >= 2 /\ IsCont(b[2])
             cp3 == (b0 - 224) * 4096 + (b[2] - 128) * 64 + (b[3] - 128)
             three == b0 >= 224 /\ b0 <= 239 /\ Len(b) >= 3
                      /\ IsCont(b[2]) /\ IsCont(b[3])
                      /\ cp3 >= 2048 /\ ~(cp3 >= 55296 /\ cp3 <= 57343)
             n == IF one THEN 1 ELSE IF two THEN 2 ELSE 3
             cp == IF one THEN b0
                   ELSE IF two THEN (b0 - 192) * 64 + (b[2] - 128)
                   ELSE cp3
         IN IF ~(one \/ two \/ three) THEN [ok |-> FALSE, str |-> <<>>]
            ELSE LET t == decode(SubSeq(b, n + 1, Len(b)))
                 IN IF t.ok THEN [ok |-> TRUE, str |-> <<Chr(cp)>> \o t.str]
                    ELSE [ok |-> FALSE, str |-> <<>>]

\* A path argument: bytes, or str.
BytesPath(b) == [type |-> "bytes", val |-> b]
StrPath(s) == [type |-> "str", val |-> s]

----------------------------------------------------------------------------
(* Time: datetime.fromisoformat, datetime.timestamp, datetime.fromtimestamp. *)

Zones == {[start |-> 0, end |-> 0, shift |-> 0, max_fold |-> 1],
          [start |-> 1, end |-> 3, shift |-> 1, max_fold |-> 1]}

\* time.localtime(u) as seconds since the local epoch.
local(u, z) == u + (IF z.start <= u /\ u < z.end THEN z.shift ELSE 0)

Naive(w, f) == [wall |-> w, fold |-> f]

Max(a, b) == IF a >= b THEN a ELSE b
Min(a, b) == IF a <= b THEN a ELSE b

\* datetime.timestamp() of a naive datetime (datetime._mktime), then int().
timestamp(dt, z) ==
    LET t == dt.wall
        a == local(t, z) - t
        u1 == t - a
        t1 == local(u1, z)
        p == u1 + (IF dt.fold = 1 THEN z.max_fold ELSE -z.max_fold)
        b == IF t1 = t THEN local(p, z) - p ELSE t1 - u1
        u2 == t - b
        t2 == local(u2, z)
    IN IF t1 = t /\ a = b THEN u1
       ELSE IF t2 = t THEN u2
       ELSE IF t1 = t THEN u1
       ELSE IF dt.fold = 1 THEN Min(u1, u2) ELSE Max(u1, u2)

\* (mutant) datetime.utcfromtimestamp(t): no conversion to local time.
utcfromtimestamp(t, z) == Naive(t, 0)

\* datetime.fromtimestamp(t): local time, fold detected by probing.
fromtimestamp(t, z) ==
    LET w == local(t, z)
        trans == w - local(t - z.max_fold, z) - z.max_fold
    IN IF trans < 0 /\ local(t + trans, z) = w THEN Naive(w, 1)
       ELSE Naive(w, 0)

RECURSIVE ParseDecimal(_)
ParseDecimal(s) ==
    IF s = <<>> THEN 0
    ELSE 10 * ParseDecimal(SubSeq(s, 1, Len(s) - 1)) + DigitValue(s[Len(s)])

\* (mutant) a parser that reads what digits there are and never raises.
fromisoformat_lenient(text) ==
    [ok |-> TRUE,
     dt |-> Naive(ParseDecimal(SelectSeq(text, LAMBDA c : c \in Digits)), 0)]

\* datetime.fromisoformat(text): ValueError unless the text is well formed.
fromisoformat(text) ==
    IF text # <<>> /\ \A i \in 1..Len(text) : text[i] \in Digits
    THEN [ok |-> TRUE, dt |-> Naive(ParseDecimal(text), 0)]
    ELSE [ok |-> FALSE, dt |-> Naive(0, 0)]

RECURSIVE FormatDecimal(_)
FormatDecimal(n) ==
    IF n < 10 THEN <<Digit[n + 1]>>
    ELSE FormatDecimal(n \div 10) \o <<Digit[(n % 10) + 1]>>

\* datetime.isoformat() and str(datetime) of a whole-second naive datetime.
isoformat(dt) == FormatDecimal(dt.wall)

\* The timestamp argument of setDateAdded: str | int | datetime.
TsStr(s) == [tag |-> "str", text |-> s, val |-> 0, dt |-> Naive(0, 0)]
TsInt(n) == [tag |-> "int", text |-> <<>>, val |-> n, dt |-> Naive(0, 0)]
TsDatetime(d) == [tag |-> "datetime", text |-> <<>>, val |-> 0, dt |-> d]

----------------------------------------------------------------------------
(* ctypes structures, lines 31-62. *)

attribute_set(c, v, d, f, k) ==
    [commonattr |-> c, volattr |-> v, dirattr |-> d, fileattr |-> f,
     forkattr |-> k]

attrlist(commonattr) ==
    [bitmapcount |-> ATTR_BIT_MAP_COUNT, reserved |-> 0,
     a |-> attribute_set(commonattr, {}, {}, {}, {})]

\* (mutant) the constructor leaves a stale nanoseconds field.
timespec_stale_nsec(tv_sec, tv_nsec) ==
    [tv_sec |-> tv_sec, tv_nsec |-> tv_nsec + 1]

timespec(tv_sec, tv_nsec) == [tv_sec |-> tv_sec, tv_nsec |-> tv_nsec]

\* dateaddedResponse(): a zero-filled buffer.
dateaddedResponse ==
    [length |-> 0, returned |-> attribute_set({}, {}, {}, {}, {}),
     dateadded |-> timespec(0, 0)]

----------------------------------------------------------------------------
(* The file system behind libc.getattrlist / libc.setattrlist. *)

NameA == <<97>>
NameL == <<108>>
NameU == <<117>>

\* "a" is a file, "l" a symbolic link to it, "u" a file on a volume that
\* does not keep the added-time attribute.
Objects ==
    (NameA :> [kind |-> "file", target |-> <<>>, supported |-> TRUE]) @@
    (NameL :> [kind |-> "link", target |-> NameA, supported |-> TRUE]) @@
    (NameU :> [kind |-> "file", target |-> <<>>, supported |-> FALSE])

Tracked == {n \in DOMAIN Objects : Objects[n].supported}

\* Path lookup; <<>> when nothing has that name.
namei(bPath, options) ==
    IF bPath \notin DOMAIN Objects THEN <<>>
    ELSE IF Objects[bPath].kind = "link" /\ 0 \notin options
         THEN Objects[bPath].target
    ELSE bPath

\* denied: the names the caller has no permission on.
\* getattrlist(path, &req, &res, sizeof(res), options)
getattrlist(fs, bPath, req, options, denied) ==
    LET obj == namei(bPath, options) IN
    IF obj = <<>>
    THEN [status |-> -1, errno |-> "ENOENT", res |-> dateaddedResponse]
    ELSE IF obj \in denied
    THEN [status |-> -1, errno |-> "EACCES", res |-> dateaddedResponse]
    ELSE IF Objects[obj].supported
    THEN [status |-> 0, errno |-> "",
          res |-> [length |-> 40,
                   returned |-> attribute_set(req.a.commonattr, {}, {}, {}, {}),
                   dateadded |-> fs[obj]]]
    ELSE [status |-> 0, errno |-> "",
          res |-> [length |-> 24,
                   returned |-> attribute_set(
                       req.a.commonattr \ ATTR_CMN_ADDEDTIME, {}, {}, {}, {}),
                   dateadded |-> timespec(0, 0)]]

\* setattrlist(path, &req, &buf, sizeof(buf), options)
setattrlist(fs, bPath, req, buf, options, denied) ==
    LET obj == namei(bPath, options) IN
    IF obj = <<>> THEN [status |-> -1, errno |-> "ENOENT", fs |-> fs]
    ELSE IF obj \in denied THEN [status |-> -1, errno |-> "EACCES", fs |-> fs]
    ELSE IF ~Objects[obj].supported
    THEN [status |-> -1, errno |-> "EINVAL", fs |-> fs]
    ELSE IF ATTR_CMN_ADDEDTIME \subseteq req.a.commonattr
    THEN [status |-> 0, errno |-> "", fs |-> [fs EXCEPT ![obj] = buf]]
    ELSE [status |-> 0, errno |-> "", fs |-> fs]

\* The record of one native call, as the adapter issued it.
NativeCall(func, bPath, req, buf, options, k) ==
    [func |-> func, path |-> bPath, req |-> req, buf |-> buf,
     options |-> options, status |-> k.status, errno |-> k.errno]

----------------------------------------------------------------------------
(* The adapter and the two operations, lines 65-102. *)

NoException == [exc |-> "", errno |-> "", filename |-> <<>>]
Exception(kind) == [exc |-> kind, errno |-> "", filename |-> <<>>]

\* errcheck of both bindings: arguments[0] is the bytes path.
raise_for_errno(result, errno, arg0) ==
    IF result # 0
    THEN LET d == decode(arg0) IN
         IF d.ok THEN [exc |-> "OSError", errno |-> errno, filename |-> d.str]
         ELSE Exception("UnicodeDecodeError")
    ELSE NoException

\* bPath = path if isinstance(path, bytes) else path.encode()
toBytes(path) ==
    IF path.type = "bytes" THEN [ok |-> TRUE, bytes |-> path.val]
    ELSE encode(path.val)

\* What an operation did: the exception it raised (exc = "" when it
\* returned), its return value, the native calls it made, the file system
\* it left.
Outcome(e, none, dt, calls, fs) ==
    [exc |-> e.exc, errno |-> e.errno, filename |-> e.filename,
     none |-> none, dt |-> dt, calls |-> calls, fs |-> fs]

\* (mutant) the response is read without comparing the echoed mask.
getDateAddedUnchecked(bPath, req, k, z, fs) ==
    LET call == NativeCall("getattrlist", bPath, req, k.res, FSOPT_NOFOLLOW, k)
        e == raise_for_errno(k.status, k.errno, bPath)
    IN IF e.exc # "" THEN Outcome(e, FALSE, Naive(0, 0), <<call>>, fs)
       ELSE Outcome(NoException, FALSE,
                    fromtimestamp(k.res.dateadded.tv_sec, z), <<call>>, fs)

\* getDateAdded from the return of getattrlist on, lines 85-90: k is what
\* the call did (status, errno, the buffer res).
getDateAddedReturn(bPath, req, k, z, fs) ==
    LET call == NativeCall("getattrlist", bPath, req, k.res, FSOPT_NOFOLLOW, k)
        e == raise_for_errno(k.status, k.errno, bPath)
    IN IF e.exc # "" THEN Outcome(e, FALSE, Naive(0, 0), <<call>>, fs)
       ELSE IF k.res.returned.commonattr # req.a.commonattr
       THEN Outcome(NoException, TRUE, Naive(0, 0), <<call>>, fs)
       ELSE Outcome(NoException, FALSE,
                    fromtimestamp(k.res.dateadded.tv_sec, z), <<call>>, fs)

getDateAdded(path, fs, z, denied) ==
    LET bPath == toBytes(path)
        req == attrlist(BitOr(ATTR_CMN_RETURNED_ATTRS, ATTR_CMN_ADDEDTIME))
    IN IF ~bPath.ok
       THEN Outcome(Exception("UnicodeEncodeError"), FALSE, Naive(0, 0), <<>>,
                    fs)
       ELSE getDateAddedReturn(
                bPath.bytes, req,
                getattrlist(fs, bPath.bytes, req, FSOPT_NOFOLLOW, denied),
                z, fs)

\* The seconds setDateAdded stores, by the type of its timestamp argument,
\* lines 95-100.
toSeconds(ts, z) ==
    IF ts.tag = "str"
    THEN LET d == fromisoformat(ts.text) IN
         [ok |-> d.ok, sec |-> IF d.ok THEN timestamp(d.dt, z) ELSE 0]
    ELSE IF ts.tag = "datetime" THEN [ok |-> TRUE, sec |-> timestamp(ts.dt, z)]
    ELSE [ok |-> TRUE, sec |-> ts.val]

\* setDateAdded from the return of setattrlist on, line 102.
setDateAddedReturn(bPath, req, iTimestamp, k) ==
    Outcome(raise_for_errno(k.status, k.errno, bPath), TRUE, Naive(0, 0),
            <<NativeCall("setattrlist", bPath, req,
                         [dateaddedResponse EXCEPT !.dateadded = iTimestamp],
                         FSOPT_NOFOLLOW, k)>>,
            k.fs)

\* setDateAdded once the path is bytes and the timestamp converted.
setDateAddedCall(bPath, s, fs, denied) ==
    LET iTimestamp == [timespec(0, 0) EXCEPT !.tv_sec = s]
        req == attrlist(ATTR_CMN_ADDEDTIME)
    IN setDateAddedReturn(
           bPath, req, iTimestamp,
           setattrlist(fs, bPath, req, iTimestamp, FSOPT_NOFOLLOW, denied))

setDateAdded(path, ts, fs, z, denied) ==
    LET bPath == toBytes(path)
        s == toSeconds(ts, z)
    IN IF ~bPath.ok
       THEN Outcome(Exception("UnicodeEncodeError"), TRUE, Naive(0, 0), <<>>,
                    fs)
       ELSE IF ~s.ok
       THEN Outcome(Exception("ValueError"), TRUE, Naive(0, 0), <<>>, fs)
       ELSE setDateAddedCall(bPath.bytes, s.sec, fs, denied)

----------------------------------------------------------------------------
(* The main section, lines 108-166. *)

Contains(s, c) == \E i \in 1..Len(s) : s[i] = c

Whitespace == {" ", "\n"}

\* str.strip()
RECURSIVE strip(_)
strip(s) ==
    IF s = <<>> THEN s
    ELSE IF Head(s) \in Whitespace THEN strip(Tail(s))
    ELSE IF s[Len(s)] \in Whitespace THEN strip(SubSeq(s, 1, Len(s) - 1))
    ELSE s

\* What open(name) can open in the working directory, and the lines each
\* file holds; StdinLines is what is piped into standard input.
ListLines(m) ==
    IF m = "set"
    THEN << <<"2", ",", "l", "\n">>, <<"#", " ", "a", "\n">>,
            <<"x", ",", "a", "\n">> >>
    ELSE << <<" ", "l", " ", "\n">>, <<"#", "a", "\n">>, <<"\n">>,
            <<"n", "_", "\n">> >>
Files(m) == "list" :> ListLines(m)
StdinLines(m) == ListLines(m)

\* os.fsencode(): UTF-8 with surrogateescape.
RECURSIVE fsencode(_)
fsencode(s) ==
    IF s = <<>> THEN <<>>
    ELSE LET cp == Ord[Head(s)] IN
         (IF cp >= 56448 /\ cp <= 56575 THEN <<cp - 56320>>
          ELSE EncodeChar(Head(s)).bytes) \o fsencode(Tail(s))

\* os.scandir() of the working directory, names as str.
DirListing == << <<"a">>, <<"l">>, <<"u">> >>

RECURSIVE fnmatch(_, _)
fnmatch(name, pat) ==
    IF pat = <<>> THEN name = <<>>
    ELSE IF Head(pat) = "*"
    THEN fnmatch(name, Tail(pat)) \/ (name # <<>> /\ fnmatch(Tail(name), pat))
    ELSE name # <<>> /\ Head(name) = Head(pat)
         /\ fnmatch(Tail(name), Tail(pat))

\* glob.iglob(p): the names that match; a pattern without wildcard
\* characters yields itself when it exists and nothing when it does not.
iglob(p) ==
    IF Contains(p, "*") THEN SelectSeq(DirListing, LAMBDA n : fnmatch(n, p))
    ELSE IF fsencode(p) \in DOMAIN Objects THEN <<p>>
    ELSE <<>>

\* pathWithTimestamp, lines 131-135.
pathWithTimestamp(timestampath) ==
    IF ~Contains(timestampath, ",")
    THEN [ok |-> FALSE, t |-> Naive(0, 0), path |-> <<>>]
    ELSE LET i == CHOOSE j \in 1..Len(timestampath) :
                    /\ timestampath[j] = ","
                    /\ \A k \in 1..(j - 1) : timestampath[k] # ","
             ts == SubSeq(timestampath, 1, i - 1)
             d == fromisoformat(ts)
         IN [ok |-> d.ok, t |-> d.dt,
             path |-> SubSeq(timestampath, i + 1, Len(timestampath))]

\* What iterfiles yields for one positional argument, lines 147-152.
yields(m, p) ==
    IF m # "set" /\ (Contains(p, "*") \/ Contains(p, "_")) THEN iglob(p)
    ELSE <<p>>

\* A printed line.
Line(kind, text, path) == [kind |-> kind, text |-> text, path |-> path]

\* (mutant) except OSError: only native-call errors are caught.
CaughtOSErrorOnly(exc) == exc = "OSError"

\* except Exception as e, lines 160 and 165.
Caught(exc) == TRUE

\* One pass of the loop body: the lines it printed, the file system it
\* left, the exception it handled (exc = "" when none), and uncaught: the
\* exception left the loop.
Body(p, out, err, exc, fs) ==
    [path |-> p, out |-> out,
     err |-> IF exc # "" /\ Caught(exc) THEN err ELSE <<>>,
     exc |-> exc, uncaught |-> exc # "" /\ ~Caught(exc), fs |-> fs]

\* (mutant) "Setting:" is printed only once the call has returned.
SetBodyPrintLast(p, path, setting, r) ==
    IF r.exc # ""
    THEN Body(p, <<>>, <<Line(r.exc, <<r.errno>>, path)>>, r.exc, r.fs)
    ELSE Body(p, <<setting>>, <<>>, "", r.fs)

\* The set branch from the print on, lines 158-161: setting is the line
\* printed, r what setDateAdded(path, t) then did.
SetBodyPrinted(p, path, setting, r) ==
    IF r.exc # ""
    THEN Body(p, <<setting>>, <<Line(r.exc, <<r.errno>>, path)>>, r.exc, r.fs)
    ELSE Body(p, <<setting>>, <<>>, "", r.fs)

\* The set branch once pathWithTimestamp returned or raised (pw); print()
\* raises when standard output is UTF-8 with the strict error handler and
\* cannot encode the line.
SetBodyParsed(p, pw, fs, z, denied, errors) ==
    IF ~pw.ok
    THEN Body(p, <<>>, <<Line("ValueError", <<>>, p)>>, "ValueError", fs)
    ELSE IF errors = "strict" /\ ~encode(pw.path).ok
    THEN Body(p, <<>>, <<Line("UnicodeEncodeError", <<>>, p)>>,
              "UnicodeEncodeError", fs)
    ELSE SetBodyPrinted(p, pw.path, Line("Setting", isoformat(pw.t), pw.path),
                        setDateAdded(StrPath(pw.path), TsDatetime(pw.t), fs, z,
                                     denied))

\* The set branch, lines 156-161.
SetBody(p, fs, z, denied, errors) ==
    SetBodyParsed(p, pathWithTimestamp(p), fs, z, denied, errors)

\* The get branch once getDateAdded returned or raised (r):
\* None.isoformat() is an AttributeError.
GetBodyReturned(p, r) ==
    IF r.exc # ""
    THEN Body(p, <<>>, <<Line(r.exc, <<r.errno>>, p)>>, r.exc, r.fs)
    ELSE IF r.none
    THEN Body(p, <<>>, <<Line("AttributeError", <<>>, p)>>, "AttributeError",
              r.fs)
    ELSE Body(p, <<Line("value", isoformat(r.dt), p)>>, <<>>, "", r.fs)

\* The get branch, lines 163-166.
GetBody(p, fs, z, denied) ==
    GetBodyReturned(p, getDateAdded(StrPath(p), fs, z, denied))

\* The loop body for one path, by args.mode.
LoopBody(m, p, fs, z, denied, errors) ==
    IF m = "set" THEN SetBody(p, fs, z, denied, errors)
    ELSE GetBody(p, fs, z, denied)

\* The loop body over the paths iterfiles yields for one entry, in order,
\* until an exception leaves the loop: run[i] is the bodies of the first i.
RunBodies(m, ps, fs, z, denied, errors) ==
    LET run[i \in 0..Len(ps)] ==
            IF i = 0 THEN <<>>
            ELSE IF i > 1 /\ run[i - 1][Len(run[i - 1])].uncaught
            THEN run[i - 1]
            ELSE Append(run[i - 1],
                        LoopBody(m, ps[i],
                                 IF i = 1 THEN fs
                                 ELSE run[i - 1][Len(run[i - 1])].fs,
                                 z, denied, errors))
    IN run[Len(ps)]

RECURSIVE Flatten(_, _)
Flatten(bodies, field) ==
    IF bodies = <<>> THEN <<>>
    ELSE Head(bodies)[field] \o Flatten(Tail(bodies), field)

Traceback == Line("Traceback", <<>>, <<>>)

----------------------------------------------------------------------------
(* State. *)

VARIABLES
    zone,        \* the local time zone of the process
    denied,      \* the names the caller has no permission on
    added,       \* the file system: name -> stored added-time (a timespec)
    last,        \* the last library call: operation, arguments, Outcome,
                 \* and follows: it came right after a successful
                 \* setDateAdded on the same path (a set: with the same
                 \* timestamp too)
    mode,        \* args.mode: "get" or "set" ("lib": no command line)
    argI,        \* args.i: "" when -i is not given
    argPath,     \* args.path
    stdoutErrors,\* the error handler of sys.stdout, set by the locale
    pc,          \* where the main section is
    lineNo,      \* lines of the -i list consumed by iterfiles
    argNo,       \* positional arguments consumed by iterfiles
    stdout,      \* lines printed on standard output
    stderr,      \* lines printed on the error stream
    report,      \* per entry iterfiles consumed: what the loop did with it
    exitStatus   \* exit status of the process (-1 while it runs)

vars == <<zone, denied, added, last, mode, argI, argPath, stdoutErrors, pc,
          lineNo, argNo, stdout, stderr, report, exitStatus>>

\* What a run of the command line never changes.
runVars == <<zone, denied, last, mode, argI, argPath, stdoutErrors>>

cliVars == <<mode, argI, argPath, stdoutErrors, pc, lineNo, argNo, stdout,
             stderr, report, exitStatus>>

DeniedSets == {{}, {NameA}}

\* The added-times the files were created with.
InitialAdded == (NameA :> timespec(1, 7)) @@ (NameL :> timespec(3, 7))

NoCall ==
    [op |-> "none", path |-> BytesPath(<<>>), ts |-> TsInt(0),
     follows |-> FALSE,
     r |-> Outcome(NoException, TRUE, Naive(0, 0), <<>>, InitialAdded)]

InitFs ==
    /\ zone \in Zones
    /\ denied \in DeniedSets
    /\ added = InitialAdded
    /\ last = NoCall

----------------------------------------------------------------------------
(* The library used directly: any sequence of getDateAdded / setDateAdded. *)

PathInputs ==
    {BytesPath(NameL), BytesPath(NameU), BytesPath(<<255>>),
     StrPath(<<"a">>), StrPath(<<"e'">>), StrPath(<<"\\udcff">>)}

TimestampInputs ==
    {TsStr(FormatDecimal(w)) : w \in 0..MaxTime}
    \cup {TsStr(<<"x">>), TsStr(<<"1", "x">>)}
    \cup {TsInt(n) : n \in 0..MaxTime}
    \cup {TsDatetime(Naive(w, f)) : w \in 0..MaxTime, f \in {0, 1}}

InitLib ==
    /\ InitFs
    /\ mode = "lib" /\ argI = "" /\ argPath = <<>> /\ pc = "lib"
    /\ stdoutErrors = "strict"
    /\ lineNo = 0 /\ argNo = 0 /\ stdout = <<>> /\ stderr = <<>>
    /\ report = <<>> /\ exitStatus = -1

AfterSet(path) ==
    last.op = "set" /\ last.r.exc = "" /\ toBytes(last.path) = toBytes(path)

Get(path) ==
    /\ pc = "lib"
    /\ \E r \in {getDateAdded(path, added, zone, denied)} :
       /\ last' = [op |-> "get", path |-> path, ts |-> TsInt(0),
                   follows |-> AfterSet(path), r |-> r]
       /\ added' = r.fs
    /\ UNCHANGED <<zone, denied, cliVars>>

Set(path, ts) ==
    /\ pc = "lib"
    /\ \E r \in {setDateAdded(path, ts, added, zone, denied)} :
       /\ last' = [op |-> "set", path |-> path, ts |-> ts,
                   follows |-> AfterSet(path) /\ last.ts = ts, r |-> r]
       /\ added' = r.fs
    /\ UNCHANGED <<zone, denied, cliVars>>

NextLib ==
    \/ \E path \in PathInputs : Get(path)
    \/ \E path \in PathInputs, ts \in TimestampInputs : Set(path, ts)

SpecLib == InitLib /\ [][NextLib]_vars

----------------------------------------------------------------------------
(* The command line: one run of the main section. *)

ArgEntries(m) ==
    IF m = "set"
    THEN { <<"3", ",", "a">>, <<"1", ",", "l">>, <<"x", ",", "a">>,
           <<"3", "_", "a">>, <<"2", ",", "n">>, <<"2", ",", "u">>,
           <<"2", ",", "\\udcff">> }
    ELSE { <<"a">>, <<"l">>, <<"u">>, <<"n">>, <<"n", "_">>, <<"*">>,
           <<"\\udcff">> }

ArgLists(m) == UNION {[1..n -> ArgEntries(m)] : n \in 0..MaxArgs}

InitCli ==
    /\ InitFs
    /\ mode \in {"get", "set"}
    /\ argI \in {"", "-", "list"}
    /\ argPath \in ArgLists(mode)
    /\ stdoutErrors \in {"strict", "surrogateescape"}
    /\ pc = "start"
    /\ lineNo = 0 /\ argNo = 0 /\ stdout = <<>> /\ stderr = <<>>
    /\ report = <<>> /\ exitStatus = -1

\* iterfiles starts: open(args.i) when -i is given.
OpenList ==
    /\ pc = "start"
    /\ IF argI = "" THEN pc' = "args" /\ UNCHANGED <<stderr, exitStatus>>
       ELSE IF argI \in DOMAIN Files(mode)
       THEN pc' = "list" /\ UNCHANGED <<stderr, exitStatus>>
       ELSE /\ pc' = "exit"
            /\ stderr' = Append(stderr, Traceback)
            /\ exitStatus' = 1
    /\ UNCHANGED <<runVars, added, lineNo, argNo, stdout, report>>

\* One entry consumed by the loop: the bodies run, the output, the report.
Consume(entry, from, ps) ==
    \E bodies \in {RunBodies(mode, ps, added, zone, denied, stdoutErrors)} :
    LET crashed == bodies # <<>> /\ bodies[Len(bodies)].uncaught
    IN /\ stdout' = stdout \o Flatten(bodies, "out")
       /\ stderr' = stderr \o Flatten(bodies, "err")
                    \o (IF crashed THEN <<Traceback>> ELSE <<>>)
       /\ added' = IF bodies = <<>> THEN added ELSE bodies[Len(bodies)].fs
       /\ report' = Append(report,
                           [entry |-> entry, from |-> from, bodies |-> bodies])
       /\ IF crashed THEN pc' = "exit" /\ exitStatus' = 1
          ELSE UNCHANGED <<pc, exitStatus>>

\* The next line of the list: skipped when blank or a comment.
ListStep ==
    /\ pc = "list"
    /\ lineNo < Len(Files(mode)[argI])
    /\ lineNo' = lineNo + 1
    /\ LET l == strip(Files(mode)[argI][lineNo + 1]) IN
       IF l = <<>> \/ Head(l) = "#"
       THEN UNCHANGED <<added, stdout, stderr, report, pc, exitStatus>>
       ELSE Consume(l, "list", <<l>>)
    /\ UNCHANGED <<runVars, argNo>>

ListEnd ==
    /\ pc = "list"
    /\ lineNo = Len(Files(mode)[argI])
    /\ pc' = "args"
    /\ UNCHANGED <<runVars, added, lineNo, argNo, stdout, stderr, report,
                   exitStatus>>

\* The next positional argument.
ArgStep ==
    /\ pc = "args"
    /\ argNo < Len(argPath)
    /\ argNo' = argNo + 1
    /\ Consume(argPath[argNo + 1], "arg", yields(mode, argPath[argNo + 1]))
    /\ UNCHANGED <<runVars, lineNo>>

\* iterfiles is exhausted: the script ends.
Exit ==
    /\ pc = "args"
    /\ argNo = Len(argPath)
    /\ pc' = "exit"
    /\ exitStatus' = 0
    /\ UNCHANGED <<runVars, added, lineNo, argNo, stdout, stderr, report>>

NextCli == OpenList \/ ListStep \/ ListEnd \/ ArgStep \/ Exit

SpecCli == InitCli /\ [][NextCli]_vars

----------------------------------------------------------------------------
(* Properties of the library (checked under SpecLib). *)

Called(op) == last.op = op /\ Len(last.r.calls) = 1
TheCall == last.r.calls[1]

\* The wall-clock second a str or datetime timestamp names.
WallOf(ts) == IF ts.tag = "str" THEN ParseDecimal(ts.text) ELSE ts.dt.wall

\* A str or datetime timestamp names a second the local clock really shows.
OnLocalClock(ts, z) == \E u \in -1..(MaxTime + 1) : local(u, z) = WallOf(ts)

\* The datetime a get returned equals the timestamp a set was given.
EqualsGiven(dt, ts, z) ==
    IF ts.tag = "int" THEN timestamp(dt, z) = ts.val ELSE dt.wall = WallOf(ts)

SetThenGet ==
    /\ last.op = "set" /\ last.r.exc = ""
    /\ last'.op = "get" /\ toBytes(last'.path) = toBytes(last.path)

\* C1 as stated: a get that follows a successful set(path, t) returns a
\* timestamp equal to t, for every t.
C1_RoundTripEveryTimestamp ==
    [][SetThenGet =>
         /\ last'.r.exc = "" /\ ~last'.r.none
         /\ EqualsGiven(last'.r.dt, last.ts, zone)]_vars

\* C1 amended: a get that follows a successful set(path, t) returns a
\* timestamp equal to t when t is epoch seconds, or a local time that
\* exists in the local zone (not one skipped by a forward clock change).
C1_RoundTripLocalTimes ==
    [][(SetThenGet /\ (last.ts.tag = "int" \/ OnLocalClock(last.ts, zone))) =>
         /\ last'.r.exc = "" /\ ~last'.r.none
         /\ EqualsGiven(last'.r.dt, last.ts, zone)]_vars

C1_Witness ==
    /\ last.op = "get" /\ last.follows /\ last.r.exc = "" /\ ~last.r.none
    /\ zone.shift > 0
    /\ last.r.dt.fold = 1

\* C2: when the query returns status 0, getDateAdded returns "no value"
\* without raising if the echoed common-attributes field differs from the
\* requested one (added-time | echo sentinel), and the timestamp built from
\* the response's seconds field exactly when the two are equal.
C2_UnsupportedIsNoValue ==
    (Called("get") /\ TheCall.status = 0) =>
        LET echoed == TheCall.buf.returned.commonattr
            requested == {28, 31}
        IN /\ TheCall.req.a.commonattr = requested
           /\ last.r.exc = ""
           /\ echoed # requested => last.r.none
           /\ echoed = requested =>
                /\ ~last.r.none
                /\ last.r.dt = fromtimestamp(TheCall.buf.dateadded.tv_sec, zone)

C2_Witness ==
    /\ Called("get") /\ TheCall.status = 0
    /\ TheCall.buf.returned.commonattr = {31}
    /\ last.r.none /\ last.r.exc = ""

\* The path an OSError carries is the path the caller gave.
CarriesPath(filename, path) ==
    IF path.type = "str" THEN filename = path.val
    ELSE encode(filename) = [ok |-> TRUE, bytes |-> path.val]

\* C3: when the native call of a get or a set returns a nonzero status with
\* last-error code E, the operation fails with an OSError carrying E and the
\* input path, and with no other kind of failure.
C3_ErrorMapping ==
    ((Called("get") \/ Called("set")) /\ TheCall.status # 0) =>
        /\ last.r.exc = "OSError"
        /\ last.r.errno = TheCall.errno
        /\ CarriesPath(last.r.filename, last.path)

Malformed(text) == text = <<>> \/ \E i \in 1..Len(text) : text[i] \notin Digits

SetMalformed == last'.op = "set" /\ last'.ts.tag = "str" /\ Malformed(last'.ts.text)

\* C4 as stated: setDateAdded with malformed timestamp text fails with the
\* parse error, makes no native call and changes no added-time.
C4_MalformedIsParseError ==
    [][SetMalformed =>
         /\ last'.r.exc = "ValueError"
         /\ last'.r.calls = <<>>
         /\ added' = added]_vars

\* C4 amended: setDateAdded with malformed timestamp text makes no native
\* call and changes no added-time; it fails with the parse error when the
\* path is bytes or text that encodes, and with the path's encoding error
\* otherwise.
C4_MalformedMakesNoCall ==
    [][SetMalformed =>
         /\ last'.r.calls = <<>>
         /\ added' = added
         /\ last'.r.exc = IF toBytes(last'.path).ok THEN "ValueError"
                          ELSE "UnicodeEncodeError"]_vars

C4_Witness ==
    /\ last.op = "set" /\ last.ts = TsStr(<<"1", "x">>)
    /\ last.path = BytesPath(NameL)
    /\ last.r.exc = "ValueError" /\ last.r.calls = <<>>
    /\ added # InitialAdded

\* C5: a successful setDateAdded(path, t) that repeats the successful call
\* before it leaves the stored added-time as that call left it: seconds t,
\* nanoseconds 0.
C5_Idempotence ==
    [][(/\ last.op = "set" /\ last.r.exc = ""
        /\ last'.op = "set" /\ last'.r.exc = ""
        /\ toBytes(last'.path) = toBytes(last.path)
        /\ last'.ts = last.ts) =>
         LET stored == added'[toBytes(last.path).bytes] IN
         /\ added' = added
         /\ stored.tv_nsec = 0
         /\ last.ts.tag = "int" => stored.tv_sec = last.ts.val
         /\ (last.ts.tag # "int" /\ OnLocalClock(last.ts, zone)) =>
                local(stored.tv_sec, zone) = WallOf(last.ts)]_vars

C5_Witness ==
    /\ last.op = "set" /\ last.follows /\ last.r.exc = ""
    /\ last.ts.tag = "datetime" /\ last.ts.dt.fold = 1
    /\ added[NameA] = timespec(3, 0)

NamesTheLink(path) == toBytes(path) = [ok |-> TRUE, bytes |-> NameL]

\* C6: every native call carries the do-not-follow-symlinks option; on the
\* symbolic link a set stores into the link's own added-time and leaves the
\* target's unchanged, and a get returns the link's own value.
C6_SymlinkItself ==
    [][last'.op \in {"get", "set"} =>
         /\ \A i \in 1..Len(last'.r.calls) : last'.r.calls[i].options = {0}
         /\ NamesTheLink(last'.path) =>
              /\ added'[NameA] = added[NameA]
              /\ (last'.op = "set" /\ last'.r.exc = "") =>
                    added'[NameL] = last'.r.calls[1].buf.dateadded
              /\ (last'.op = "get" /\ last'.r.exc = "") =>
                    last'.r.dt = fromtimestamp(added[NameL].tv_sec, zone)]_vars

C6_Witness ==
    /\ last.op = "set" /\ NamesTheLink(last.path) /\ last.r.exc = ""
    /\ added[NameL] = timespec(2, 0)
    /\ added[NameA] = InitialAdded[NameA]

----------------------------------------------------------------------------
(* Properties of the command line (checked under SpecCli). *)

\* The entries a list of lines asks for: stripped, blank and comment
\* lines left out.
RECURSIVE EntriesOf(_)
EntriesOf(lines) ==
    IF lines = <<>> THEN <<>>
    ELSE LET l == strip(Head(lines)) IN
         (IF l = <<>> \/ Head(l) = "#" THEN <<>> ELSE <<l>>)
         \o EntriesOf(Tail(lines))

ReportedEntries == [i \in 1..Len(report) |-> report[i].entry]

\* The entries the code reads: the lines of the file named by -i, then the
\* positional arguments.
Submitted ==
    (IF argI \in DOMAIN Files(mode) THEN EntriesOf(Files(mode)[argI]) ELSE <<>>)
    \o argPath

\* The entries the user asked for: with -i - the list is standard input.
Requested ==
    (IF argI = "" THEN <<>>
     ELSE IF argI = "-" THEN EntriesOf(StdinLines(mode))
     ELSE EntriesOf(Files(mode)[argI]))
    \o argPath

Failed(b) == b.exc # ""

\* The file system a body of an entry started from.
FsBefore(bodies, i, fs) == IF i = 1 THEN fs ELSE bodies[i - 1].fs

EntryIsolated(a, fs) ==
    /\ Len(a.bodies) = Len(IF a.from = "arg" THEN yields(mode, a.entry)
                           ELSE <<a.entry>>)
    /\ \A i \in 1..Len(a.bodies) :
         Failed(a.bodies[i]) =>
           /\ Len(a.bodies[i].err) = 1
           /\ a.bodies[i].err[1].kind = a.bodies[i].exc
           /\ a.bodies[i].fs = FsBefore(a.bodies, i, fs)

\* C7: a failure on one entry (native-call error, unsupported attribute,
\* parse error, missing comma) writes one error line for that entry, changes
\* no added-time and does not end the loop; the entries after it are
\* processed, in submitted order.
C7_BatchIsolation ==
    /\ [][(report' # report
           /\ \E i \in 1..Len(report'[Len(report')].bodies) :
                Failed(report'[Len(report')].bodies[i])) =>
            /\ EntryIsolated(report'[Len(report')], added)
            /\ pc' = pc /\ exitStatus' = -1
            /\ stderr' = stderr \o Flatten(report'[Len(report')].bodies, "err")
            /\ lineNo' + argNo' = lineNo + argNo + 1]_vars
    /\ [](pc \in {"list", "args", "exit"} =>
            /\ Len(report) <= Len(Submitted)
            /\ ReportedEntries = SubSeq(Submitted, 1, Len(report))
            /\ (pc = "exit" /\ (argI = "" \/ argI \in DOMAIN Files(mode))) =>
                  exitStatus = 0 /\ Len(report) = Len(Submitted))

C7_Witness ==
    /\ pc = "exit" /\ exitStatus = 0 /\ mode = "set" /\ Len(report) = 3
    /\ report[1].bodies[1].exc = ""
    /\ report[2].bodies[1].exc = "ValueError"
    /\ report[3].entry = <<"1", ",", "l">>
    /\ report[3].bodies[1].exc = ""
    /\ added[NameL].tv_nsec = 0

\* C8: the process attempts every requested entry and then completes with
\* exit status 0, whatever fails on the way.
C8_AlwaysExitsZero ==
    pc = "exit" =>
        /\ exitStatus = 0
        /\ ReportedEntries = Requested
        /\ \A i \in 1..Len(report) : report[i].bodies # <<>>

SettingLines(b) == SelectSeq(b.out, LAMBDA l : l.kind = "Setting")

\* C9 as stated: each set entry gives either the Setting line, when the set
\* succeeded, or an error line, when it failed, and never both.
C9_SettingOrError ==
    mode = "set" =>
        \A i \in 1..Len(report) : \A j \in 1..Len(report[i].bodies) :
            LET b == report[i].bodies[j] IN
            \/ ~Failed(b) /\ Len(SettingLines(b)) = 1 /\ b.err = <<>>
            \/ Failed(b) /\ SettingLines(b) = <<>> /\ Len(b.err) = 1

\* timestamp,path with a well-formed timestamp.
Parses(entry) ==
    /\ Contains(entry, ",")
    /\ LET i == CHOOSE j \in 1..Len(entry) :
                    entry[j] = "," /\ \A k \in 1..(j - 1) : entry[k] # ","
       IN ~Malformed(SubSeq(entry, 1, i - 1))

\* Standard output can encode the text.
Printable(text) ==
    \/ stdoutErrors = "surrogateescape"
    \/ \A i \in 1..Len(text) : Ord[text[i]] < 55296 \/ Ord[text[i]] > 57343

\* C9 amended: each set entry gives one error line exactly when it failed,
\* and the Setting line exactly when it parsed as timestamp,path (and
\* standard output can encode it): the line is printed before the set is
\* attempted, so an entry whose set fails gives both.
C9_SettingThenError ==
    mode = "set" =>
        \A i \in 1..Len(report) : \A j \in 1..Len(report[i].bodies) :
            LET b == report[i].bodies[j] IN
            /\ Len(b.err) = IF Failed(b) THEN 1 ELSE 0
            /\ Len(b.out) = IF Parses(b.path) /\ Printable(b.path) THEN 1
                            ELSE 0
            /\ b.out = SettingLines(b)
            /\ ~Parses(b.path) => Failed(b)

C9_Witness ==
    /\ mode = "set" /\ Len(report) = 1
    /\ report[1].entry = <<"2", ",", "n">>
    /\ report[1].bodies[1].exc = "OSError"
    /\ Len(SettingLines(report[1].bodies[1])) = 1
    /\ Len(report[1].bodies[1].err) = 1

\* C10: every path given to get either has its timestamp lines printed or,
\* when it fails, an error line; none is dropped without an error line.
C10_NoSilentDrop ==
    mode = "get" =>
        \A i \in 1..Len(report) :
            \/ Flatten(report[i].bodies, "out") # <<>>
            \/ Flatten(report[i].bodies, "err") # <<>>

====
